---- MODULE Spec2Model ----
(***************************************************************************)
(* Model of the two dependency-sync scripts of logseq-multigraph-          *)
(* experiments:                                                            *)
(*   02-symlinked-pages/sync_dependencies.py   (link materialization)      *)
(*   03-copy-pages-script/sync_dependencies.py (copy materialization)      *)
(*                                                                         *)
(* A file name is a sequence of symbols.  The symbols "P", "Q", "x" and    *)
(* "_" are single characters; ".md" and ".txt" stand for those character   *)
(* runs.  No other symbol holds a ".", so a name splits into symbols in    *)
(* one way only, and prefix tests and equality on symbol sequences agree   *)
(* with Python's on the character strings.                                 *)
(***************************************************************************)
EXTENDS Integers, Sequences, FiniteSets, TLC

VARIABLES
    strategy,   \* "link" | "copy" | "match": which program this behaviour runs
    decl,       \* the dependencies.json of every graph (read-only input)
    fs,         \* fs[g]: the pages/ directory of graph g, name -> entry
    now,        \* the filesystem clock that stamps modification times
    pc,         \* "idle" | "sync" | "done" | "failed" | "crashed"
    exit,       \* exit status of the last finished run, NoExit before
    run,        \* number of the run in progress (or just finished)
    work,       \* remaining (graph, edge, rule) triples of this run, in order
    cur,        \* the triple whose file loop is in progress, or NoWork
    files,      \* names of the listing of cur not yet processed
    pending,    \* copy script: the (source, target, did_copy) of the file in hand
    writers,    \* history: [path, by] for every write to a target path this run
    copies,     \* history: what the last copy to each target path read
    touched,    \* history: source paths whose mtime was raised after run 1
    failed,     \* history: the paths at which an I/O operation failed
    probe       \* "match" behaviours: the (namespace, filename, selected) triple

vars == <<strategy, decl, fs, now, pc, exit, run, work, cur, files, pending,
          writers, copies, touched, failed, probe>>

----------------------------------------------------------------------------
(* Bounds of the model *)

MaxDeps == 2        \* dependent-graphs entries per dependencies.json
MaxEdges == 2       \* edges in a declaration set
MaxPre == 2         \* entries found in the pages/ directories at the start
MaxRuns == 2        \* consecutive runs of the program
MaxTime == 2        \* largest value of the filesystem clock
MaxNameLen == 6     \* symbols in a file name handed to the rule matcher

Graphs == {"a", "b", "c"}       \* directories holding logseq/ and pages/
Declaring == {"a", "b"}         \* the graphs that hold a dependencies.json
Dangling == {"x"}               \* a declared path that is no directory
Nodes == Graphs \cup Dangling

NoWork == [g |-> "none", d |-> 0, r |-> 0]
NoExit == "none"                \* no run has ended yet
ExitOk == "0"                   \* exit status 0
ExitError == "1"                \* sys.exit(1), or an uncaught exception
NoFile == "NoFile"
NoRaise == "NoRaise"

MD == ".md"
TXT == ".txt"
SEP == <<"_", "_", "_">>

----------------------------------------------------------------------------
(* Strings *)

\* str.startswith
StartsWith(s, p) == Len(p) <= Len(s) /\ SubSeq(s, 1, Len(p)) = p

\* index of the first occurrence of p in s, 0 when there is none (str.find + 1)
Find(s, p) ==
    LET hits == {i \in 1..(Len(s) - Len(p) + 1) : SubSeq(s, i, i + Len(p) - 1) = p}
    IN  IF Len(p) = 0 THEN 1
        ELSE IF hits = {} THEN 0
        ELSE CHOOSE i \in hits : \A j \in hits : i <= j

\* str.replace(old, new, 1)
ReplaceFirst(s, old, new) ==
    LET i == Find(s, old)
    IN  IF i = 0 THEN s
        ELSE SubSeq(s, 1, i - 1) \o new \o SubSeq(s, i + Len(old), Len(s))

\* all sequences over S of length at most n
RECURSIVE SeqsUpTo(_, _)
SeqsUpTo(S, n) ==
    IF n = 0 THEN {<<>>}
    ELSE LET shorter == SeqsUpTo(S, n - 1)
         IN  shorter \cup {Append(s, x) : s \in {t \in shorter : Len(t) = n - 1}, x \in S}

----------------------------------------------------------------------------
(* The filesystem: pages/ directories *)

File(c, m) == [k |-> "file", content |-> c, mtime |-> m]
Directory == [k |-> "dir"]
Link(to) == [k |-> "link", to |-> to]

Path(n, f) == <<n, f>>

\* the directory d with name f bound to entry e
Put(d, f, e) == [n \in (DOMAIN d) \cup {f} |-> IF n = f THEN e ELSE d[n]]

EmptyDir == [n \in {} |-> NoFile]

\* os.path.isdir of the pages/ directory of node n
isdir(n) == n \in DOMAIN fs

\* os.listdir of the pages/ directory of node n
listdir(n) == DOMAIN fs[n]

----------------------------------------------------------------------------
(* Graph Resolver (link script) *)

NoPath == "NoPath"      \* a dependent-graphs entry without "local-graph-path"
Absent == {}            \* the value set of a key the JSON object does not hold

\* every graph directory holds a logseq/ folder; the dangling path does not
find_logseq_graphs == Graphs

\* os.path.isfile of the dependencies.json of g
isfile_dependencies(g) == g \in DOMAIN decl

\* dependencies.json of g: its "dependent-graphs" list, [] without the file
load_dependencies(g) == IF isfile_dependencies(g) THEN decl[g] ELSE <<>>

HasPath(spec) == spec.path # NoPath
EdgeOf(spec) == <<spec.path, spec>>

RECURSIVE MapEdges(_)
MapEdges(specs) ==
    IF specs = <<>> THEN <<>>
    ELSE <<EdgeOf(Head(specs))>> \o MapEdges(Tail(specs))

\* adj_list[g]: the (dependency, spec) pairs of g, entries without a path dropped
build_dependency_graph(graphs) ==
    [g \in graphs |-> MapEdges(SelectSeq(load_dependencies(g), HasPath))]

RECURSIVE dfs(_, _, _)
RECURSIVE dfs_neighbors(_, _, _, _)

\* the for loop of dfs over adj_list[v], from its i-th neighbor on
dfs_neighbors(adj, nbs, i, st) ==
    IF i > Len(nbs) \/ st.raised # NoRaise THEN st
    ELSE LET neighbor == nbs[i][1]
         IN  IF neighbor \notin st.visited
                 THEN dfs_neighbors(adj, nbs, i + 1, dfs(adj, neighbor, st))
             ELSE IF neighbor \in st.rec_stack
                 THEN [st EXCEPT !.raised = neighbor]
             ELSE dfs_neighbors(adj, nbs, i + 1, st)

\* dfs without its "rec_stack.remove(v)": a finished node stays on the stack
dfs_keeps_stack(adj, v, st) ==
    LET entered == [st EXCEPT !.visited = @ \cup {v}, !.rec_stack = @ \cup {v},
                              !.calls = Append(@, v)]
    IN  IF v \in DOMAIN adj
            THEN dfs_neighbors(adj, adj[v], 1, entered)
            ELSE entered

dfs(adj, v, st) ==
    LET entered == [st EXCEPT !.visited = @ \cup {v}, !.rec_stack = @ \cup {v},
                              !.calls = Append(@, v)]
        looped == IF v \in DOMAIN adj
                      THEN dfs_neighbors(adj, adj[v], 1, entered)
                      ELSE entered
    IN  IF looped.raised # NoRaise THEN looped
        ELSE [looped EXCEPT !.rec_stack = @ \ {v}]

RECURSIVE dfs_roots(_, _, _, _)
dfs_roots(adj, order, i, st) ==
    IF i > Len(order) \/ st.raised # NoRaise THEN st
    ELSE IF order[i] \notin st.visited
        THEN dfs_roots(adj, order, i + 1, dfs(adj, order[i], st))
    ELSE dfs_roots(adj, order, i + 1, st)

\* order: the keys of adj_list in dict order.  raised is the node the exception
\* names, NoRaise when none is raised; calls lists the dfs calls made.
detect_cycle_dfs(adj, order) ==
    dfs_roots(adj, order, 1,
              [visited |-> {}, rec_stack |-> {}, raised |-> NoRaise, calls |-> <<>>])

\* os.listdir gives the graph directories in any order
Orders(S) == {s \in [1..Cardinality(S) -> S] : \A i, j \in 1..Cardinality(S) : s[i] = s[j] => i = j}

----------------------------------------------------------------------------
(* Materialization by links (02-symlinked-pages) *)

Work(g, d, r) == [g |-> g, d |-> d, r |-> r]

\* the (graph, edge) pairs in the order sync_dependencies visits them
RECURSIVE sync_dependencies(_, _)
sync_dependencies(adj, order) ==
    IF order = <<>> THEN <<>>
    ELSE [d \in 1..Len(adj[Head(order)]) |-> Work(Head(order), d, 1)]
         \o sync_dependencies(adj, Tail(order))

\* spec.get("only-files-beginning-with", "")
only_prefix(spec) ==
    IF spec.prefix = Absent THEN <<>> ELSE CHOOSE p \in spec.prefix : TRUE

\* os.path.abspath of a link's text; the links here hold absolute paths
abspath(path) == path

\* One pass of the for loop of link_files_with_prefix, for a listed name that
\* starts with the prefix: the pages/ directory of the target afterwards, and
\* whether anything in it was removed or created.
link_file(dir, source_path, fname) ==
    LET correct == /\ fname \in DOMAIN dir
                   /\ dir[fname].k = "link"
                   /\ abspath(dir[fname].to) = abspath(source_path)
    IN  IF correct
            THEN [dir |-> dir, mutated |-> FALSE]
            ELSE [dir |-> Put(dir, fname, Link(abspath(source_path))), mutated |-> TRUE]

\* the histories of writes and failures are kept per run
ResetHistory ==
    /\ writers' = {}
    /\ failed' = {}

\* main: discover the graphs, build the adjacency list, refuse a cycle with
\* exit status 1, otherwise start the sync
LinkMain ==
    /\ strategy = "link"
    /\ pc = "idle"
    /\ \E order \in Orders(find_logseq_graphs) :
          LET adj_list == build_dependency_graph(find_logseq_graphs)
              found == detect_cycle_dfs(adj_list, order)
          IN  IF found.raised # NoRaise
                  THEN /\ pc' = "failed"
                       /\ exit' = ExitError
                       /\ work' = <<>>
                  ELSE /\ pc' = "sync"
                       /\ exit' = NoExit
                       /\ work' = sync_dependencies(adj_list, order)
    /\ UNCHANGED <<strategy, decl, fs, now, run, cur, files, pending, writers,
                   copies, touched, failed, probe>>

\* link_files_with_prefix up to its loop: nothing to do without a source
\* pages/ directory, else list it and keep the names that start with the prefix
link_files_with_prefix ==
    /\ strategy = "link"
    /\ pc = "sync"
    /\ cur = NoWork
    /\ work # <<>>
    /\ LET w == Head(work)
           edge == build_dependency_graph(find_logseq_graphs)[w.g][w.d]
           source == edge[1]
           prefix == only_prefix(edge[2])
           listing == IF isdir(source)
                          THEN {f \in listdir(source) : StartsWith(f, prefix)}
                          ELSE {}
       IN  /\ work' = Tail(work)
           /\ files' = listing
           /\ cur' = IF listing = {} THEN NoWork ELSE w
    /\ UNCHANGED <<strategy, decl, fs, now, pc, exit, run, pending, writers,
                   copies, touched, failed, probe>>

\* one pass of the loop of link_files_with_prefix
LinkFile ==
    /\ strategy = "link"
    /\ pc = "sync"
    /\ cur # NoWork
    /\ \E fname \in files :
          LET source == build_dependency_graph(find_logseq_graphs)[cur.g][cur.d][1]
              res == link_file(fs[cur.g], Path(source, fname), fname)
          IN  /\ fs' = [fs EXCEPT ![cur.g] = res.dir]
              /\ writers' = IF res.mutated
                                THEN writers \cup {[path |-> Path(cur.g, fname), by |-> cur]}
                                ELSE writers
              /\ files' = files \ {fname}
              /\ cur' = IF files = {fname} THEN NoWork ELSE cur
    /\ UNCHANGED <<strategy, decl, now, pc, exit, run, work, pending, copies,
                   touched, failed, probe>>

\* main after sync_dependencies returned: "Sync complete."
LinkDone ==
    /\ strategy = "link"
    /\ pc = "sync"
    /\ cur = NoWork
    /\ work = <<>>
    /\ pc' = "done"
    /\ exit' = ExitOk
    /\ UNCHANGED <<strategy, decl, fs, now, run, work, cur, files, pending,
                   writers, copies, touched, failed, probe>>

\* the program is started again after a run that completed
Rerun ==
    /\ pc = "done"
    /\ run < MaxRuns
    /\ pc' = "idle"
    /\ run' = run + 1
    /\ ResetHistory
    /\ UNCHANGED <<strategy, decl, fs, now, exit, work, cur, files, pending,
                   copies, touched, probe>>

----------------------------------------------------------------------------
(* Inputs of the link script *)

PMD == <<"P", MD>>
QMD == <<"Q", MD>>

LinkNames == {PMD, QMD}
LinkPrefixes == {Absent, {<<"P">>}}

LinkSpecs == [path : Nodes \cup {NoPath}, prefix : LinkPrefixes, rules : {<<>>}]

EdgeCount(dc) ==
    LET RECURSIVE Sum(_)
        Sum(S) == IF S = {} THEN 0
                  ELSE LET g == CHOOSE x \in S : TRUE IN Len(dc[g]) + Sum(S \ {g})
    IN  Sum(DOMAIN dc)

Decls(specs) ==
    {dc \in [Declaring -> SeqsUpTo(specs, MaxDeps)] : EdgeCount(dc) <= MaxEdges}

\* what a pages/ directory may hold before the first run
LinkEntries(f) ==
    IF f = PMD THEN {File(<<>>, 0), Directory} \cup {Link(Path(g, f)) : g \in Graphs}
    ELSE {File(<<>>, 0)}

Slots(names) == Graphs \X names

\* the pages/ directories with the entries of `chosen` (slot -> entry)
Tree(chosen) ==
    [n \in Graphs |->
        [f \in {s[2] : s \in {t \in DOMAIN chosen : t[1] = n}} |-> chosen[<<n, f>>]]]

LinkTrees ==
    UNION {
        UNION { {Tree(ch) : ch \in {c \in [S -> UNION {LinkEntries(f) : f \in LinkNames}] :
                                        \A sl \in S : c[sl] \in LinkEntries(sl[2])}} }
        : S \in {T \in SUBSET Slots(LinkNames) : Cardinality(T) <= MaxPre} }

----------------------------------------------------------------------------
(* Materialization by copies (03-copy-pages-script) *)

\* A file's content: the provenance headers at its top, outermost first, and
\* the text below them.  text names the page the text was written as; crlf
\* tells whether its lines end in "\r\n" rather than "\n".
Content(hdrs, text, crlf) == [hdrs |-> hdrs, text |-> text, crlf |-> crlf]

Exts == {MD, TXT}

\* os.path.splitext(name)[0]: cut at the last dot that follows another character
splitext_root(name) ==
    LET dots == {i \in 2..Len(name) : name[i] \in Exts}
    IN  IF dots = {} THEN name
        ELSE SubSeq(name, 1, (CHOOSE i \in dots : \A j \in dots : j <= i) - 1)

\* str.replace(old, new): every occurrence, left to right, without overlap
RECURSIVE ReplaceAll(_, _, _)
ReplaceAll(s, old, new) ==
    IF Len(s) = 0 THEN s
    ELSE IF StartsWith(s, old)
        THEN new \o ReplaceAll(SubSeq(s, Len(old) + 1, Len(s)), old, new)
    ELSE <<Head(s)>> \o ReplaceAll(Tail(s), old, new)

\* base_name.replace("___", "/")
_derive_page_name(base_name) == ReplaceAll(base_name, SEP, <<"/">>)

\* urllib.parse.quote(page_name, safe=""): of the symbols here only "/" is escaped
quote(page_name) == ReplaceAll(page_name, <<"/">>, <<"%2F">>)

\* the two attribute lines for a target file copied from source_graph_name
Header(target_name, source_graph_name) ==
    [graph |-> source_graph_name,
     page |-> quote(_derive_page_name(splitext_root(target_name)))]

\* f.read() of a file opened in text mode: "\r\n" arrives as "\n"
read_text(content) == [content EXCEPT !.crlf = FALSE]

Exists(tree, path) == path[1] \in DOMAIN tree /\ path[2] \in DOMAIN tree[path[1]]

\* _do_copy: the target holds the bytes of the source, written at time clock
_do_copy(tree, src_path, dst_path, clock) ==
    [tree EXCEPT ![dst_path[1]] =
        Put(@, dst_path[2], File(tree[src_path[1]][src_path[2]].content, clock))]

\* copy_file_if_needed without its test of the flag: an existing target is
\* always compared by modification time
copy_file_if_needed_ignoring_flag(tree, source_file_path, target_file_path, overwrite_if_newer, clock) ==
    IF ~Exists(tree, source_file_path)
        THEN [tree |-> tree, did_copy |-> FALSE, msg |-> "Source file does not exist"]
    ELSE IF ~Exists(tree, target_file_path)
        THEN [tree |-> _do_copy(tree, source_file_path, target_file_path, clock),
              did_copy |-> TRUE, msg |-> "Copying new file"]
    ELSE IF tree[source_file_path[1]][source_file_path[2]].mtime
                > tree[target_file_path[1]][target_file_path[2]].mtime
        THEN [tree |-> _do_copy(tree, source_file_path, target_file_path, clock),
              did_copy |-> TRUE, msg |-> "Overwriting older file"]
    ELSE [tree |-> tree, did_copy |-> FALSE, msg |-> "Target is up to date"]

\* copy_file_if_needed comparing with >= : a tie overwrites
copy_file_if_needed_on_tie(tree, source_file_path, target_file_path, overwrite_if_newer, clock) ==
    IF ~Exists(tree, source_file_path)
        THEN [tree |-> tree, did_copy |-> FALSE, msg |-> "Source file does not exist"]
    ELSE IF ~Exists(tree, target_file_path)
        THEN [tree |-> _do_copy(tree, source_file_path, target_file_path, clock),
              did_copy |-> TRUE, msg |-> "Copying new file"]
    ELSE IF ~overwrite_if_newer
        THEN [tree |-> tree, did_copy |-> FALSE, msg |-> "Skipping file"]
    ELSE IF tree[source_file_path[1]][source_file_path[2]].mtime
                >= tree[target_file_path[1]][target_file_path[2]].mtime
        THEN [tree |-> _do_copy(tree, source_file_path, target_file_path, clock),
              did_copy |-> TRUE, msg |-> "Overwriting older file"]
    ELSE [tree |-> tree, did_copy |-> FALSE, msg |-> "Target is up to date"]

\* copy_file_if_needed: the tree afterwards, the value returned and the
\* message printed
copy_file_if_needed(tree, source_file_path, target_file_path, overwrite_if_newer, clock) ==
    IF ~Exists(tree, source_file_path)
        THEN [tree |-> tree, did_copy |-> FALSE, msg |-> "Source file does not exist"]
    ELSE IF ~Exists(tree, target_file_path)
        THEN [tree |-> _do_copy(tree, source_file_path, target_file_path, clock),
              did_copy |-> TRUE, msg |-> "Copying new file"]
    ELSE IF ~overwrite_if_newer
        THEN [tree |-> tree, did_copy |-> FALSE, msg |-> "Skipping file"]
    ELSE IF tree[source_file_path[1]][source_file_path[2]].mtime
                > tree[target_file_path[1]][target_file_path[2]].mtime
        THEN [tree |-> _do_copy(tree, source_file_path, target_file_path, clock),
              did_copy |-> TRUE, msg |-> "Overwriting older file"]
    ELSE [tree |-> tree, did_copy |-> FALSE, msg |-> "Target is up to date"]

\* _prepend_page_level_attributes: read the target as text, write the header
\* and the text back
_prepend_page_level_attributes(tree, target_file_path, source_graph_name, clock) ==
    LET old_content == read_text(tree[target_file_path[1]][target_file_path[2]].content)
        new_content == [old_content EXCEPT
                           !.hdrs = <<Header(target_file_path[2], source_graph_name)>> \o @]
    IN  [tree EXCEPT ![target_file_path[1]] =
            Put(@, target_file_path[2], File(new_content, clock))]

\* namespace_config.get("overwrite-if-source-is-newer", False)
overwrite_if_source_is_newer(namespace_config) == namespace_config.ow = {TRUE}

\* the filter of the file loop of sync_graph_dependencies
Selects(source_namespace, fname) ==
    LET is_exact == fname = source_namespace \o <<MD>>
        is_subpage == StartsWith(fname, source_namespace \o SEP)
    IN  is_exact \/ is_subpage

\* fname.replace(source_namespace, target_namespace, 1)
new_fname(fname, source_namespace, target_namespace) ==
    ReplaceFirst(fname, source_namespace, target_namespace)

\* the (edge, rule) pairs of graph g in the order sync_graph_dependencies
\* visits them: entries without a path or without a source pages/ are skipped
RECURSIVE sync_graph_dependencies(_, _)
sync_graph_dependencies(g, d) ==
    IF d > Len(decl[g]) THEN <<>>
    ELSE (IF decl[g][d].path = NoPath \/ ~isdir(decl[g][d].path)
              THEN <<>>
              ELSE [r \in 1..Len(decl[g][d].rules) |-> Work(g, d, r)])
         \o sync_graph_dependencies(g, d + 1)

\* the directories main hands to sync_graph_dependencies, in listing order
RECURSIVE CopyWork(_)
CopyWork(order) ==
    IF order = <<>> THEN <<>>
    ELSE (IF isfile_dependencies(Head(order))
              THEN sync_graph_dependencies(Head(order), 1)
              ELSE <<>>)
         \o CopyWork(Tail(order))

NoPending == [src |-> <<"none", <<>> >>, tgt |-> <<"none", <<>> >>,
              did_copy |-> FALSE, msg |-> "none"]

Rule(w) == decl[w.g][w.d].rules[w.r]
Source(w) == decl[w.g][w.d].path

\* main: every directory with a dependencies.json, in the order os.listdir
\* gives them; there is no check of the declarations before the first copy
CopyMain ==
    /\ strategy = "copy"
    /\ pc = "idle"
    /\ \E order \in Orders(Graphs) : work' = CopyWork(order)
    /\ pc' = "sync"
    /\ exit' = NoExit
    /\ UNCHANGED <<strategy, decl, fs, now, run, cur, files, pending, writers,
                   copies, touched, failed, probe>>

\* one namespace_config of sync_graph_dependencies up to its file loop: list
\* the source pages/ and keep the names the namespace selects
CopyRule ==
    /\ strategy = "copy"
    /\ pc = "sync"
    /\ cur = NoWork
    /\ work # <<>>
    /\ LET w == Head(work)
           listing == {f \in listdir(Source(w)) : Selects(Rule(w).src, f)}
       IN  /\ work' = Tail(work)
           /\ files' = listing
           /\ cur' = IF listing = {} THEN NoWork ELSE w
    /\ UNCHANGED <<strategy, decl, fs, now, pc, exit, run, pending, writers,
                   copies, touched, failed, probe>>

\* one pass of the file loop, up to the return of copy_file_if_needed
CopyFile ==
    /\ strategy = "copy"
    /\ pc = "sync"
    /\ cur # NoWork
    /\ pending = NoPending
    /\ \E fname \in files :
          LET source_file_path == Path(Source(cur), fname)
              target_file_path ==
                  Path(cur.g, new_fname(fname, Rule(cur).src, Rule(cur).tgt))
              res == copy_file_if_needed(fs, source_file_path, target_file_path,
                                         overwrite_if_source_is_newer(Rule(cur)), now)
          IN  /\ fs' = res.tree
              /\ pending' = [src |-> source_file_path, tgt |-> target_file_path,
                             did_copy |-> res.did_copy, msg |-> res.msg]
              /\ writers' = IF res.did_copy
                                THEN writers \cup {[path |-> target_file_path, by |-> cur]}
                                ELSE writers
              /\ copies' = IF res.did_copy
                               THEN {c \in copies : c.path # target_file_path}
                                    \cup {[path |-> target_file_path,
                                           read |-> fs[source_file_path[1]][source_file_path[2]].content]}
                               ELSE copies
              /\ files' = files \ {fname}
    /\ UNCHANGED <<strategy, decl, now, pc, exit, run, work, cur, touched,
                   failed, probe>>

\* the rest of the pass: "if did_copy: _prepend_page_level_attributes(...)"
CopyPrepend ==
    /\ strategy = "copy"
    /\ pc = "sync"
    /\ pending # NoPending
    /\ fs' = IF pending.did_copy
                 THEN _prepend_page_level_attributes(fs, pending.tgt, pending.src[1], now)
                 ELSE fs
    /\ pending' = NoPending
    /\ cur' = IF files = {} THEN NoWork ELSE cur
    /\ UNCHANGED <<strategy, decl, now, pc, exit, run, work, files, writers,
                   copies, touched, failed, probe>>

\* main after the last directory: "Done."
CopyDone ==
    /\ strategy = "copy"
    /\ pc = "sync"
    /\ cur = NoWork
    /\ work = <<>>
    /\ pc' = "done"
    /\ exit' = ExitOk
    /\ UNCHANGED <<strategy, decl, fs, now, run, work, cur, files, pending,
                   writers, copies, touched, failed, probe>>

\* time passes
Tick ==
    /\ strategy = "copy"
    /\ now < MaxTime
    /\ now' = now + 1
    /\ UNCHANGED <<strategy, decl, fs, pc, exit, run, work, cur, files, pending,
                   writers, copies, touched, failed, probe>>

\* the paths the rules of the declarations write to, given the pages listed now
TargetPaths ==
    UNION {UNION {
        {Path(g, new_fname(f, decl[g][d].rules[r].src, decl[g][d].rules[r].tgt)) :
            f \in {n \in listdir(decl[g][d].path) : Selects(decl[g][d].rules[r].src, n)}}
        : r \in 1..Len(decl[g][d].rules)}
        : <<g, d>> \in {e \in (DOMAIN decl) \X (1..MaxDeps) : e[2] <= Len(decl[e[1]])}}

\* between two runs the user touches a page a graph holds of its own (no rule
\* writes to it): its modification time becomes the current time, which is
\* later than every time stamped before
Touch ==
    /\ strategy = "copy"
    /\ pc = "done"
    /\ run < MaxRuns
    /\ \A g \in Graphs : \A f \in listdir(g) : fs[g][f].mtime < now
    /\ \E g \in Graphs : \E f \in listdir(g) :
          /\ Path(g, f) \notin TargetPaths
          /\ fs' = [fs EXCEPT ![g] = Put(@, f, [fs[g][f] EXCEPT !.mtime = now])]
          /\ touched' = touched \cup {Path(g, f)}
    /\ UNCHANGED <<strategy, decl, now, pc, exit, run, work, cur, files, pending,
                   writers, copies, failed, probe>>

----------------------------------------------------------------------------
(* Inputs of the copy script *)

PXMD == <<"P", "_", "_", "_", "x", MD>>

CopyNames == {PMD, PXMD}
Namespaces == {<<"P">>}
Flags == {{TRUE}, {FALSE}, Absent}

Rules == [src : Namespaces, tgt : Namespaces, ow : Flags]
CopySpecs == [path : Graphs, prefix : {Absent}, rules : {<<r>> : r \in Rules}]

\* what a pages/ directory may hold before the first run: pages of the graph
\* itself, P.md written at time 0 or 1, with "\n" or "\r\n" line ends
CopyEntries(g, f) ==
    IF f = PMD
        THEN {File(Content(<<>>, g, FALSE), 0), File(Content(<<>>, g, FALSE), 1),
              File(Content(<<>>, g, TRUE), 0)}
        ELSE {File(Content(<<>>, g, FALSE), 0)}

CopyTrees ==
    UNION {
        {Tree(ch) : ch \in {c \in [S -> UNION {CopyEntries(sl[1], sl[2]) : sl \in S}] :
                                \A sl \in S : c[sl] \in CopyEntries(sl[1], sl[2])}}
        : S \in {T \in SUBSET Slots(CopyNames) : Cardinality(T) <= MaxPre} }

NoProbe == [ns |-> <<>>, fname |-> <<>>, selected |-> "none"]

InitCommon ==
    /\ now = 1
    /\ pc = "idle"
    /\ exit = NoExit
    /\ run = 1
    /\ work = <<>>
    /\ cur = NoWork
    /\ files = {}
    /\ pending = NoPending
    /\ writers = {}
    /\ copies = {}
    /\ touched = {}
    /\ failed = {}
    /\ probe = NoProbe

InitCopy ==
    /\ strategy = "copy"
    /\ decl \in Decls(CopySpecs)
    /\ fs \in CopyTrees
    /\ InitCommon

NextCopy == CopyMain \/ CopyRule \/ CopyFile \/ CopyPrepend \/ CopyDone \/ Rerun
            \/ Tick \/ Touch

SpecCopy == InitCopy /\ [][NextCopy]_vars

----------------------------------------------------------------------------
(* I/O failures.  Neither script holds a try block around its file           *)
(* operations: an OSError raised by one of them leaves the loops and main,   *)
(* and the interpreter ends the process with a traceback and status 1.       *)

\* a handler that reports the failure and goes on with the next file
uncaught_continues == "sync"

\* where the program is after an exception no handler caught
uncaught == "crashed"

Crash(path) ==
    /\ pc' = uncaught
    /\ exit' = ExitError
    /\ failed' = failed \cup {path}

Remove(d, f) == [n \in (DOMAIN d) \ {f} |-> d[n]]

\* a file truncated by open(path, "w") and never written
Truncated(clock) == File(Content(<<>>, "", FALSE), clock)

\* os.readlink, os.remove, shutil.rmtree or os.symlink raises in a pass of the
\* loop of link_files_with_prefix: either nothing was done yet, or the old
\* entry is gone and the link was not made
LinkFileFails ==
    /\ strategy = "link"
    /\ pc = "sync"
    /\ cur # NoWork
    /\ \E fname \in files :
          LET source == build_dependency_graph(find_logseq_graphs)[cur.g][cur.d][1]
              res == link_file(fs[cur.g], Path(source, fname), fname)
          IN  /\ \/ fs' = fs
                 \/ /\ res.mutated
                    /\ fname \in DOMAIN fs[cur.g]
                    /\ fs' = [fs EXCEPT ![cur.g] = Remove(@, fname)]
              /\ Crash(Path(cur.g, fname))
    /\ UNCHANGED <<strategy, decl, now, run, work, cur, files, pending, writers,
                   copies, touched, probe>>

\* os.path.getmtime, open, read or write raises inside copy_file_if_needed:
\* either the target is as it was, or open(dst_path, "wb") had emptied it
CopyFileFails ==
    /\ strategy = "copy"
    /\ pc = "sync"
    /\ cur # NoWork
    /\ pending = NoPending
    /\ \E fname \in files :
          LET source_file_path == Path(Source(cur), fname)
              target_file_path ==
                  Path(cur.g, new_fname(fname, Rule(cur).src, Rule(cur).tgt))
              res == copy_file_if_needed(fs, source_file_path, target_file_path,
                                         overwrite_if_source_is_newer(Rule(cur)), now)
          IN  /\ \/ fs' = fs
                 \/ /\ res.did_copy
                    /\ fs' = [fs EXCEPT ![cur.g] =
                                 Put(@, target_file_path[2], Truncated(now))]
              /\ Crash(target_file_path)
    /\ UNCHANGED <<strategy, decl, now, run, work, cur, files, pending, writers,
                   copies, touched, probe>>

\* open, read or write raises inside _prepend_page_level_attributes: the
\* target holds the copy without a header, or open(path, "w") had emptied it
CopyPrependFails ==
    /\ strategy = "copy"
    /\ pc = "sync"
    /\ pending # NoPending
    /\ pending.did_copy
    /\ \/ fs' = fs
       \/ fs' = [fs EXCEPT ![pending.tgt[1]] = Put(@, pending.tgt[2], Truncated(now))]
    /\ Crash(pending.tgt)
    /\ UNCHANGED <<strategy, decl, now, run, work, cur, files, pending, writers,
                   copies, touched, probe>>

----------------------------------------------------------------------------
(* The rule matcher on its own *)

Alphabet == {"P", "p", "_", MD, TXT}
MatchNamespaces == {<<"P">>, <<"p">>}

InitMatch ==
    /\ strategy = "match"
    /\ decl = [g \in {} |-> <<>>]
    /\ fs = [g \in Graphs |-> EmptyDir]
    /\ now = 1
    /\ pc = "idle"
    /\ exit = NoExit
    /\ run = 1
    /\ work = <<>>
    /\ cur = NoWork
    /\ files = {}
    /\ pending = NoPending
    /\ writers = {}
    /\ copies = {}
    /\ touched = {}
    /\ failed = {}
    /\ probe \in [ns : MatchNamespaces, fname : SeqsUpTo(Alphabet, MaxNameLen),
                  selected : {"unknown"}]

\* the filter of the file loop applied to one listed name
Match ==
    /\ strategy = "match"
    /\ probe.selected = "unknown"
    /\ probe' = [probe EXCEPT
                    !.selected = IF Selects(probe.ns, probe.fname) THEN "yes" ELSE "no"]
    /\ UNCHANGED <<strategy, decl, fs, now, pc, exit, run, work, cur, files,
                   pending, writers, copies, touched, failed>>

SpecMatch == InitMatch /\ [][Match]_vars

InitLink ==
    /\ strategy = "link"
    /\ decl \in Decls(LinkSpecs)
    /\ fs \in LinkTrees
    /\ InitCommon

NextLink == LinkMain \/ link_files_with_prefix \/ LinkFile \/ LinkDone \/ Rerun

SpecLink == InitLink /\ [][NextLink]_vars

\* one run of either script in which file operations may fail
InitFail == InitLink \/ InitCopy

NextFail ==
    \/ LinkMain \/ link_files_with_prefix \/ LinkFile \/ LinkDone
    \/ CopyMain \/ CopyRule \/ CopyFile \/ CopyPrepend \/ CopyDone
    \/ LinkFileFails \/ CopyFileFails \/ CopyPrependFails

SpecFail == InitFail /\ [][NextFail]_vars

----------------------------------------------------------------------------
(* The cycle detector on its own *)

MaxCycleEdges == 4      \* dependent-graphs entries over all graphs together

GraphSeq == <<"a", "b", "c">>
Rank(g) == CHOOSE i \in 1..Len(GraphSeq) : GraphSeq[i] = g

\* the (graph, dependency) pairs of the dependencies.json files, graph by graph
EdgeLists ==
    {es \in SeqsUpTo(Graphs \X Nodes, MaxCycleEdges) :
        \A i \in 1..(Len(es) - 1) : Rank(es[i][1]) <= Rank(es[i + 1][1])}

PathSpec(e) == [path |-> e[2], prefix |-> Absent, rules |-> <<>>]

RECURSIVE SpecsOf(_, _)
SpecsOf(es, g) ==
    IF es = <<>> THEN <<>>
    ELSE (IF Head(es)[1] = g THEN <<PathSpec(Head(es))>> ELSE <<>>) \o SpecsOf(Tail(es), g)

NotRun == [visited |-> {}, rec_stack |-> {}, raised |-> "unknown", calls |-> <<>>]

InitCycle ==
    /\ strategy = "cycle"
    /\ \E es \in EdgeLists : decl = [g \in Graphs |-> SpecsOf(es, g)]
    /\ fs = [g \in Graphs |-> EmptyDir]
    /\ now = 1
    /\ pc = "idle"
    /\ exit = NoExit
    /\ run = 1
    /\ work = <<>>
    /\ cur = NoWork
    /\ files = {}
    /\ pending = NoPending
    /\ writers = {}
    /\ copies = {}
    /\ touched = {}
    /\ failed = {}
    /\ \E order \in Orders(find_logseq_graphs) : probe = [order |-> order, found |-> NotRun]

\* main, steps 2 and 3: build the adjacency list and run detect_cycle_dfs on it
DetectCycle ==
    /\ strategy = "cycle"
    /\ pc = "idle"
    /\ LET found == detect_cycle_dfs(build_dependency_graph(find_logseq_graphs), probe.order)
       IN  /\ probe' = [probe EXCEPT !.found = found]
           /\ pc' = IF found.raised # NoRaise THEN "failed" ELSE "checked"
           /\ exit' = IF found.raised # NoRaise THEN ExitError ELSE NoExit
    /\ UNCHANGED <<strategy, decl, fs, now, run, work, cur, files, pending,
                   writers, copies, touched, failed>>

SpecCycle == InitCycle /\ [][DetectCycle]_vars

----------------------------------------------------------------------------
(* Properties *)

\* the declared edges (dependent, dependency)
Edges ==
    {e \in Nodes \X Nodes :
        /\ e[1] \in DOMAIN decl
        /\ \E i \in 1..Len(decl[e[1]]) : decl[e[1]][i].path = e[2]}

\* the nodes reached from n over one or more edges
RECURSIVE Grow(_)
Grow(S) ==
    LET more == S \cup {e[2] : e \in {d \in Edges : d[1] \in S}}
    IN  IF more = S THEN S ELSE Grow(more)

Reached(n) == Grow({e[2] : e \in {d \in Edges : d[1] = n}})

\* the declarations hold a directed cycle (a self-loop is one)
HasCycle == \E n \in Nodes : n \in Reached(n)

Written == {w.path : w \in writers}

\* C1: a declaration set with a directed cycle makes a run write to no pages/
\* directory and end in failure, under the link and under the copy strategy.
C1_AcyclicityGate ==
    HasCycle => /\ writers = {}
                /\ exit # ExitOk

\* C1, for the link script alone: this is what the code does
C1_LinkGate ==
    (strategy = "link" /\ HasCycle) =>
        /\ writers = {}
        /\ pc \in {"idle", "failed"}
        /\ pc = "failed" => exit = ExitError

\* C2: the second of two runs of the link script over an acyclic declaration
\* set creates, removes and replaces nothing.
C2_LinkIdempotence ==
    (strategy = "link" /\ ~HasCycle /\ run = 2) => writers = {}

\* the (source path, target path) pairs the link rules select in this state
LinkPairs ==
    LET adj_list == build_dependency_graph(find_logseq_graphs)
    IN  {pr \in (Nodes \X LinkNames) \X (Graphs \X LinkNames) :
            \E d \in 1..Len(adj_list[pr[2][1]]) :
                /\ adj_list[pr[2][1]][d][1] = pr[1][1]
                /\ isdir(pr[1][1])
                /\ pr[1][2] \in listdir(pr[1][1])
                /\ StartsWith(pr[1][2], only_prefix(adj_list[pr[2][1]][d][2]))
                /\ pr[2][2] = pr[1][2]}

\* the graphs that declare no dependency: no run writes to their pages/
Leaf(n) == \A e \in Edges : e[1] # n

\* C3: after a run of the link script the target path of every source file a
\* prefix rule matches is a link to exactly that source file, and the run
\* after it leaves the path alone.  The source files are those of graphs
\* whose pages/ no rule writes to: they were there before the run.
C3_LinkCorrection ==
    (strategy = "link" /\ pc = "done") =>
        \A pr \in {q \in LinkPairs : Leaf(q[1][1])} :
            /\ Exists(fs, pr[2])
            /\ fs[pr[2][1]][pr[2][2]] = Link(pr[1])
            /\ run = 2 => pr[2] \notin Written

\* C10: in a run over a cycle-free declaration set every target path is written
\* by at most one (edge, rule) pair.
C10_SingleWriter ==
    ~HasCycle =>
        \A w1, w2 \in writers : w1.path = w2.path => w1.by = w2.by

----------------------------------------------------------------------------

\* the pass of the file loop in hand is at the return of copy_file_if_needed
Returned == strategy = "copy" /\ pending = NoPending /\ pending' # NoPending

Entry(tree, path) == tree[path[1]][path[2]]

\* C4: under a rule whose overwrite-if-source-is-newer is false or absent, a
\* target that exists when its source is processed keeps content and
\* modification time, and gets no header.
C4_SkipIfNotNewer ==
    [][/\ (Returned /\ ~overwrite_if_source_is_newer(Rule(cur)) /\ Exists(fs, pending'.tgt))
            => (~pending'.did_copy /\ fs' = fs)
       /\ (strategy = "copy" /\ pending # NoPending /\ ~pending.did_copy /\ pending' = NoPending)
            => fs' = fs]_vars

\* a skip under an absent flag, of a source that is newer and differs
C4_Witness ==
    /\ pending # NoPending
    /\ pending.msg = "Skipping file"
    /\ Rule(cur).ow = Absent
    /\ Entry(fs, pending.src).mtime > Entry(fs, pending.tgt).mtime
    /\ Entry(fs, pending.src).content # Entry(fs, pending.tgt).content

\* C5: with the flag true and a target present, copy_file_if_needed copies the
\* source bytes and returns True exactly when the source's modification time is
\* strictly greater; otherwise it returns False and changes nothing.  With no
\* target it copies whatever the flag.
C5_NewerWins ==
    [][Returned =>
         LET src == pending'.src
             tgt == pending'.tgt
         IN  /\ ~Exists(fs, tgt) =>
                    /\ pending'.did_copy
                    /\ Entry(fs', tgt).content = Entry(fs, src).content
             /\ (Exists(fs, tgt) /\ overwrite_if_source_is_newer(Rule(cur))) =>
                    /\ pending'.did_copy <=> Entry(fs, src).mtime > Entry(fs, tgt).mtime
                    /\ pending'.did_copy =>
                           /\ Entry(fs', tgt).content = Entry(fs, src).content
                           /\ \A g \in Graphs : \A f \in listdir(g) :
                                  Path(g, f) # tgt => Entry(fs', Path(g, f)) = Entry(fs, Path(g, f))
                    /\ ~pending'.did_copy => fs' = fs]_vars

\* a tie of the modification times, the contents differing: no copy
C5_Witness ==
    /\ pending # NoPending
    /\ pending.msg = "Target is up to date"
    /\ Entry(fs, pending.src).mtime = Entry(fs, pending.tgt).mtime
    /\ Entry(fs, pending.src).content # Entry(fs, pending.tgt).content

\* every rule of the declarations allows the overwrite
AllOverwrite ==
    \A g \in DOMAIN decl : \A d \in 1..Len(decl[g]) : \A r \in 1..Len(decl[g][d].rules) :
        overwrite_if_source_is_newer(decl[g][d].rules[r])

\* the target paths of the sources touched between the runs
TouchedTargets ==
    UNION {UNION {UNION {
        {Path(g, new_fname(t[2], decl[g][d].rules[r].src, decl[g][d].rules[r].tgt)) :
            t \in {u \in touched : /\ u[1] = decl[g][d].path
                                   /\ Selects(decl[g][d].rules[r].src, u[2])}}
        : r \in 1..Len(decl[g][d].rules)}
        : d \in 1..Len(decl[g])}
        : g \in DOMAIN decl}

\* C6: with the flag true everywhere and no cycle, the second run rewrites
\* exactly the targets whose source was touched after the first run, and
\* nothing when no source was.
C6_RerunConvergence ==
    (strategy = "copy" /\ AllOverwrite /\ ~HasCycle /\ run = 2 /\ pc = "done") =>
        Written = TouchedTargets

\* C7: a target that was copied holds one header followed by the bytes the
\* source held at the last copy.
C7_HeaderThenSourceBytes ==
    (strategy = "copy" /\ pending = NoPending) =>
        \A c \in copies :
            Entry(fs, c.path).content =
                [c.read EXCEPT !.hdrs = <<Header(c.path[2], Entry(fs, c.path).content.hdrs[1].graph)>> \o @]

ProgramStep ==
    \/ LinkMain \/ link_files_with_prefix \/ LinkFile \/ LinkDone
    \/ CopyMain \/ CopyRule \/ CopyFile \/ CopyPrepend \/ CopyDone

ClaimedSelects(ns, fname) ==
    \/ fname = ns \o <<MD>>
    \/ /\ StartsWith(fname, ns \o SEP)
       /\ fname[Len(fname)] = MD
       /\ Len(fname) > Len(ns) + Len(SEP) + 1

C9_HierarchicalMatch ==
    probe.selected # "unknown" /\ strategy = "match" =>
        (probe.selected = "yes" <=> ClaimedSelects(probe.ns, probe.fname))

----------------------------------------------------------------------------

\* the dependencies of n in the order its dependencies.json lists them
Nbrs(n) ==
    IF n \in DOMAIN decl THEN [i \in 1..Len(decl[n]) |-> decl[n][i].path] ELSE <<>>

NoRepeat(seq) == \A i, j \in 1..Len(seq) : seq[i] = seq[j] => i = j

OnStack(v) == v \in probe.found.rec_stack

\* the recursion stack when detect_cycle_dfs ended, bottom first
Stack == SelectSeq(probe.found.calls, OnStack)

\* No neighbor looked at before the one that raised was on the stack: every
\* frame of the stack went through its neighbors in order up to the one it
\* descended into (the top frame: up to the one it raised for), and no node
\* that was finished has an edge into the stack.
RaisedAtFirst ==
    LET f == probe.found
    IN  /\ Stack # <<>>
        /\ f.raised \in f.rec_stack
        /\ \A p \in 1..Len(Stack) :
               LET next == IF p < Len(Stack) THEN Stack[p + 1] ELSE f.raised
                   nbs == Nbrs(Stack[p])
               IN  \E k \in 1..Len(nbs) :
                       /\ nbs[k] = next
                       /\ \A j \in 1..(k - 1) : nbs[j] \in f.visited \ f.rec_stack
        /\ \A u \in f.visited \ f.rec_stack :
               \A i \in 1..Len(Nbrs(u)) : Nbrs(u)[i] \in f.visited \ f.rec_stack

\* C11: detect_cycle_dfs raises exactly when the edges hold a directed cycle
\* (a self-loop is one), dangling dependencies included; the node it names
\* lies on a cycle; it raises at the first neighbor found on the recursion
\* stack; without a cycle it returns, having visited each node once.
C11_CycleDetectionExact ==
    (strategy = "cycle" /\ pc # "idle") =>
        LET f == probe.found
        IN  /\ f.raised # NoRaise <=> HasCycle
            /\ NoRepeat(f.calls)
            /\ {f.calls[i] : i \in 1..Len(f.calls)} = f.visited
            /\ f.raised # NoRaise =>
                   /\ f.raised \in Reached(f.raised)
                   /\ RaisedAtFirst
            /\ f.raised = NoRaise =>
                   /\ f.rec_stack = {}
                   /\ f.visited = Graphs \cup {e[2] : e \in Edges}

\* a cycle found two frames deep after a dangling dependency was visited and
\* left
C11_Witness ==
    /\ strategy = "cycle"
    /\ pc = "failed"
    /\ Cardinality(probe.found.rec_stack) >= 2
    /\ "x" \in probe.found.visited \ probe.found.rec_stack

====
